---- MODULE Spec2Model ----
(***************************************************************************)
(* A model of the macro-indicator dashboard core of                       *)
(* andreynes/macroforecasts: the dataset cache (DataCache in src/app.py   *)
(* and src/utils/data_loader.py) and the series resampler (_build_table,  *)
(* _build_series and their helpers in src/app.py).                        *)
(*                                                                         *)
(* Conventions.  A calendar date is a triple <<year, month, day>>.  A      *)
(* numeric Value is an exact rational [n |-> numerator, d |-> denominator] *)
(* in lowest terms (binary floating-point rounding is not modelled); the   *)
(* float nan of pandas is the record NaN.   String literals of the source   *)
(* that are written in Cyrillic are transliterated, TLA+ strings being     *)
(* ASCII.                                                                  *)
(***************************************************************************)
EXTENDS Integers, Sequences, FiniteSets, TLC

\* The null object reference (Python None where a DataFrame is expected).
None == 0
\* No dataset content.
NoRows == <<>>
\* self._last_mtime = None of utils/data_loader.py.
NoMtime == -1
\* float nan, the missing Value (d = 0 is no rational).
NaN == [n |-> 0, d |-> 0]
\* Python None in a list of numbers.
PyNone == [n |-> 0, d |-> -1]
\* pandas NaT, the missing timestamp.
NaT == <<0, 0, 0>>

Rat(k) == [n |-> k, d |-> 1]

RECURSIVE Gcd(_, _)
Gcd(a, b) == IF b = 0 THEN a ELSE Gcd(b, a % b)

Abs(k) == IF k < 0 THEN -k ELSE k

\* n/d in lowest terms, d > 0.
Reduce(n, d) == LET g == Gcd(Abs(n), d) IN [n |-> n \div g, d |-> d \div g]

(***************************************************************************)
(* Calendar                                                                *)
(***************************************************************************)
IsLeap(y) == (y % 4 = 0 /\ y % 100 # 0) \/ y % 400 = 0

DaysInMonth(y, m) ==
    IF m = 2 THEN (IF IsLeap(y) THEN 29 ELSE 28)
    ELSE IF m \in {4, 6, 9, 11} THEN 30 ELSE 31

\* Timestamp comparison.
DateLE(a, b) ==
    \/ a[1] < b[1]
    \/ a[1] = b[1] /\ a[2] < b[2]
    \/ a[1] = b[1] /\ a[2] = b[2] /\ a[3] <= b[3]

DateLT(a, b) == DateLE(a, b) /\ a # b

(***************************************************************************)
(* Configuration of src/app.py                                             *)
(***************************************************************************)
\* "Inflyatsiya, % m/m" and "VVP, % g/g" stand for the two Cyrillic keys.
InflationAlias == "Inflyatsiya, % m/m"
GdpAlias == "VVP, % g/g"
KeyRateAlias == "Klyuchevaya stavka"

NATIVE_FREQ_LOCK == (InflationAlias :> "M") @@ (GdpAlias :> "A")

FREQ_RULE == ("M" :> "M") @@ ("Q" :> "Q") @@ ("A" :> "A-DEC")

\* dict.get(key, default)
DictGet(dict, key, default) == IF key \in DOMAIN dict THEN dict[key] ELSE default

(***************************************************************************)
(* The backing spreadsheet and DataCache._read_excel                       *)
(***************************************************************************)
\* str(c).strip() of the header cells that occur in the modelled sheets.
Strip(h) ==
    CASE h = " Unit " -> "Unit"
      [] h = "freq " -> "freq"
      [] OTHER -> h

\* str(c).strip().lower()
StripLower(h) ==
    CASE Strip(h) = "Date" -> "date"
      [] Strip(h) = "NAME" -> "name"
      [] Strip(h) = "Indicator" -> "indicator"
      [] Strip(h) = "Value" -> "value"
      [] Strip(h) = "Unit" -> "unit"
      [] Strip(h) = "Method" -> "method"
      [] Strip(h) = "ALIAS" -> "alias"
      [] OTHER -> Strip(h)

\* The ASCII keys of cols_map (its Cyrillic keys map the same way).
cols_map ==
    [k \in {"date", "name", "indicator", "naimenovanie", "value", "znachenie",
            "unit", "freq", "method", "alias"} |->
        CASE k = "date" -> "Date"
          [] k \in {"name", "indicator", "naimenovanie"} -> "Name"
          [] k \in {"value", "znachenie"} -> "Value"
          [] k = "unit" -> "Unit"
          [] k = "freq" -> "Freq"
          [] k = "method" -> "Method"
          [] k = "alias" -> "Alias"]

\* std_cols[c] = cols_map.get(k_low, key)
StdCol(h) == DictGet(cols_map, StripLower(h), Strip(h))

required == <<"Date", "Name", "Value", "Unit", "Freq", "Method">>

\* astype(str).str.upper().str.strip().map({M,Q,A,A-DEC}).fillna("M")
NormFreq(raw) ==
    CASE raw \in {"M", "m", " m"} -> "M"
      [] raw \in {"Q", "q", "Q "} -> "Q"
      [] raw \in {"A", "a", "A-DEC", "a-dec"} -> "A"
      [] OTHER -> "M"

\* astype(str).str.lower().str.strip().map({...}).fillna("avg")
NormMethod(raw) ==
    CASE raw \in {"avg", "AVG", "average", "Average", "mean"} -> "avg"
      [] raw \in {"eop", "EOP", "end", "last", "Last "} -> "eop"
      [] OTHER -> "avg"

\* Unicode code-point order of the aliases the model uses.
AliasOrder == <<"Key rate", "USD/RUB", GdpAlias, InflationAlias, KeyRateAlias>>

AliasRank(a) == CHOOSE i \in 1..Len(AliasOrder) : AliasOrder[i] = a

\* The ordering of sort_values(["Alias", "Date"]).
RowLE(r1, r2) ==
    \/ AliasRank(r1.Alias) < AliasRank(r2.Alias)
    \/ r1.Alias = r2.Alias /\ DateLE(r1.Date, r2.Date)

RECURSIVE InsertRow(_, _)
InsertRow(sorted, r) ==
    IF sorted = <<>> THEN <<r>>
    ELSE IF RowLE(sorted[Len(sorted)], r) THEN Append(sorted, r)
    ELSE Append(InsertRow(SubSeq(sorted, 1, Len(sorted) - 1), r), sorted[Len(sorted)])

\* A stable sort by (Alias, Date).
RECURSIVE SortRows(_)
SortRows(rows) ==
    IF rows = <<>> THEN <<>>
    ELSE InsertRow(SortRows(SubSeq(rows, 1, Len(rows) - 1)), rows[Len(rows)])

IsSortedRows(rows) == \A i \in 1..(Len(rows) - 1) : RowLE(rows[i], rows[i + 1])

\* The sheets the file may hold: a header row and the cell rows under it.
SheetA ==
    [header |-> <<"Date", "NAME", "value", " Unit ", "freq ", "Method">>,
     cells |-> << <<(<<2024, 2, 15>>), "USD/RUB", Rat(92), "RUB", "m", "average">>,
                  <<(<<2024, 1, 15>>), "USD/RUB", Rat(90), "RUB", "M", "avg">>,
                  <<(<<2024, 3, 31>>), "Key rate", Rat(16), "%", "Q ", "Last ">> >>]

SheetB ==
    [header |-> <<"ALIAS", "Indicator", "Date", "Value", "unit", "freq", "method">>,
     cells |-> << <<"USD/RUB", "US dollar", (<<2024, 6, 30>>), Rat(88), "RUB", "?", "">>,
                  <<"Key rate", "Bank rate", (<<2024, 6, 30>>), NaN, "%", "a-dec", "EOP">> >>]

\* A sheet without the Value column.
SheetBad ==
    [header |-> <<"Date", "NAME", " Unit ", "freq ", "Method">>,
     cells |-> << <<(<<2024, 2, 15>>), "USD/RUB", "RUB", "m", "average">> >>]

Sheets == <<SheetA, SheetB, SheetBad>>

ColumnsOf(sheet) == {StdCol(sheet.header[i]) : i \in 1..Len(sheet.header)}

\* The cell of a row under the column renamed to c.
Cell(sheet, cells, c) ==
    cells[CHOOSE i \in 1..Len(sheet.header) : StdCol(sheet.header[i]) = c]

NormRow(sheet, cells) ==
    [Date |-> Cell(sheet, cells, "Date"),
     Name |-> Cell(sheet, cells, "Name"),
     Value |-> Cell(sheet, cells, "Value"),
     Unit |-> Cell(sheet, cells, "Unit"),
     Freq |-> NormFreq(Cell(sheet, cells, "Freq")),
     Method |-> NormMethod(Cell(sheet, cells, "Method")),
     Alias |-> IF "Alias" \in ColumnsOf(sheet) THEN Cell(sheet, cells, "Alias")
               ELSE Cell(sheet, cells, "Name")]

\* The body of _read_excel after the existence check: rename the columns,
\* check the required ones, default Alias, normalise Freq and Method, sort.
ParseSheet(sheet) ==
    IF \E i \in 1..Len(required) : required[i] \notin ColumnsOf(sheet)
    THEN [ok |-> FALSE, err |-> "ValueError"]
    ELSE [ok |-> TRUE,
          rows |-> SortRows([i \in 1..Len(sheet.cells) |-> NormRow(sheet, sheet.cells[i])])]

\* ParseSheet of every file content, computed once.
Parsed == [c \in 1..Len(Sheets) |-> ParseSheet(Sheets[c])]

\* DataCache._read_excel on a file state: the parsed rows, or the exception.
_read_excel(f) ==
    IF ~f.exists THEN [ok |-> FALSE, err |-> "FileNotFoundError"]
    ELSE Parsed[f.content]

\* A row as pd.read_excel returns it: the cells under the file's own headers.
RawRow(sheet, cells) ==
    [h \in {sheet.header[i] : i \in 1..Len(sheet.header)} |->
        cells[CHOOSE i \in 1..Len(sheet.header) : sheet.header[i] = h]]

\* DataCache._load of utils/data_loader.py on an .xlsx sheet: the rows as read
\* (the date column holds dates already; nothing is renamed, checked or sorted).
LoadSheet(sheet) ==
    [ok |-> TRUE, rows |-> [i \in 1..Len(sheet.cells) |-> RawRow(sheet, sheet.cells[i])]]

\* LoadSheet of every file content, computed once.
Loaded == [c \in 1..Len(Sheets) |-> LoadSheet(Sheets[c])]

\* DataCache._load on a file state; pd.read_excel raises when the file is gone.
_load(f) ==
    IF ~f.exists THEN [ok |-> FALSE, err |-> "FileNotFoundError"]
    ELSE Loaded[f.content]

(***************************************************************************)
(* State                                                                   *)
(***************************************************************************)
VARIABLES
    impl,      \* which DataCache class is instantiated: "app" or "data_loader"
    file,      \* the backing file: [exists, mtime, content (index into Sheets)]
    cache,     \* the DataCache object: [df (object id or None), mtime]
    heap,      \* DataFrame objects: id -> [rows, src]
    ret,       \* the reference the sequential caller got from its last get_df
    last,      \* record of the last sequential get_df call
    pc,        \* per thread: position inside get_df
    loc,       \* per thread: the locals of get_df
    df,        \* resampler: the dataset handed to _build_table / _build_series
    call,      \* resampler: the arguments of the last call
    out        \* resampler: the result of the last call

vars == <<impl, file, cache, heap, ret, last, pc, loc, df, call, out>>

cacheVars == <<impl, file, cache, heap, ret, last>>
threadVars == <<pc, loc>>
resamplerVars == <<df, call, out>>

(***************************************************************************)
(* Bounds                                                                  *)
(***************************************************************************)
MaxMtime == 2
NThreads == 2

Mtimes == 0..MaxMtime
Threads == 1..NThreads
ObjIds == 1..(2 * NThreads + 2)

(***************************************************************************)
(* DataFrame objects                                                       *)
(***************************************************************************)
Min(S) == CHOOSE x \in S : \A y \in S : x <= y

\* The id a newly created DataFrame gets.
FreshId(used) == Min(ObjIds \ used)

\* The objects still referenced; the others are freed.
FreeCell == [rows |-> NoRows, src |-> -1]

Collect(h, live) == [i \in ObjIds |-> IF i \in live THEN h[i] ELSE FreeCell]

RowsOf(h, ref) == IF ref = None THEN NoRows ELSE h[ref].rows

(***************************************************************************)
(* DataCache.get_df, one sequential caller                                 *)
(***************************************************************************)
NeedsReload_NewerOnly(cdf, cmtime, mtime) == cdf = None \/ mtime > cmtime

\* if self.df is None or mtime != self.mtime
NeedsReload(cdf, cmtime, mtime) == cdf = None \/ mtime # cmtime

FailedLoadMtime_Recorded(cmtime, mtime) == mtime

\* self.mtime after _read_excel raised: the assignment is never reached.
FailedLoadMtime(cmtime, mtime) == cmtime

CopyRef_Alias(ref, fresh) == ref

\* self.df.copy(): the reference handed to the caller is a new object.
CopyRef(ref, fresh) == fresh

NoCall ==
    [called |-> FALSE, statOk |-> FALSE, statMtime |-> 0, preDf |-> None,
     preRows |-> NoRows, preMtime |-> 0, preLoaded |-> NoRows, parsed |-> FALSE,
     outcome |-> "none", retRows |-> NoRows, loaded |-> NoRows,
     afterReload |-> FALSE, afterFailedReload |-> FALSE,
     dirty |-> FALSE, sawDirty |-> FALSE]

\* get_df once its stat, its staleness test and its parser are fixed:
\* reload and assign on a stale cache, then hand out a copy.
CallGetDf(statOk, mtime, reload, r) ==
    LET loadOk == reload /\ r.ok
        dfId == FreshId({cache.df, ret} \ {None})
        heap1 == IF loadOk
                 THEN [heap EXCEPT ![dfId] = [rows |-> r.rows, src |-> mtime]]
                 ELSE heap
        cache1 == IF loadOk THEN [df |-> dfId, mtime |-> mtime]
                  ELSE IF reload
                  THEN [df |-> cache.df, mtime |-> FailedLoadMtime(cache.mtime, mtime)]
                  ELSE cache
        outcome == IF ~statOk THEN "FileNotFoundError"
                   ELSE IF reload /\ ~r.ok THEN r.err
                   ELSE IF cache1.df = None THEN "AttributeError"
                   ELSE "ok"
        cpId == FreshId({cache.df, cache1.df, ret} \ {None})
        heap2 == IF outcome = "ok" THEN [heap1 EXCEPT ![cpId] = heap1[cache1.df]]
                 ELSE heap1
        ret1 == IF outcome = "ok" THEN CopyRef(cache1.df, cpId) ELSE None
    IN /\ cache' = cache1
       /\ ret' = ret1
       /\ heap' = Collect(heap2, {cache1.df, ret1} \ {None})
       /\ last' = [called |-> TRUE, statOk |-> statOk,
                   statMtime |-> IF statOk THEN mtime ELSE 0,
                   preDf |-> cache.df, preRows |-> RowsOf(heap, cache.df),
                   preMtime |-> cache.mtime, preLoaded |-> last.loaded,
                   parsed |-> reload, outcome |-> outcome,
                   retRows |-> RowsOf(heap2, ret1),
                   loaded |-> IF loadOk THEN r.rows ELSE last.loaded,
                   afterReload |-> last.parsed /\ last.outcome = "ok",
                   afterFailedReload |-> /\ last.parsed /\ last.outcome # "ok"
                                         /\ statOk /\ last.statMtime = mtime,
                   dirty |-> FALSE, sawDirty |-> last.dirty]
       /\ UNCHANGED <<impl, file, threadVars, resamplerVars>>

\* DataCache.get_df of app.py.
get_df ==
    /\ impl = "app"
    /\ CallGetDf(file.exists, file.mtime,
                 file.exists /\ NeedsReload(cache.df, cache.mtime, file.mtime),
                 _read_excel(file))

\* if self._df is None or self._last_mtime is None or mtime != self._last_mtime
LoaderNeedsReload(cdf, cmtime, mtime) == cdf = None \/ cmtime = NoMtime \/ mtime # cmtime

\* DataCache.get_df of utils/data_loader.py.
loader_get_df ==
    /\ impl = "data_loader"
    /\ CallGetDf(file.exists, file.mtime,
                 file.exists /\ LoaderNeedsReload(cache.df, cache.mtime, file.mtime),
                 _load(file))

\* The file is written (or created) by an external editor; the new
\* modification time is whatever the editor or a restore leaves.
EditFile ==
    \E c \in 1..Len(Sheets), m \in Mtimes :
        /\ file' = [exists |-> TRUE, mtime |-> m, content |-> c]
        /\ file' # file
        /\ UNCHANGED <<impl, cache, heap, ret, last, threadVars, resamplerVars>>

DeleteFile ==
    /\ file.exists
    /\ file' = [file EXCEPT !.exists = FALSE]
    /\ UNCHANGED <<impl, cache, heap, ret, last, threadVars, resamplerVars>>

\* The caller changes the DataFrame it was handed, in place (drops its last row).
Mutate ==
    /\ ret # None
    /\ heap[ret].rows # <<>>
    /\ heap' = [heap EXCEPT ![ret].rows = SubSeq(@, 1, Len(@) - 1)]
    /\ last' = [last EXCEPT !.dirty = TRUE]
    /\ UNCHANGED <<impl, file, cache, ret, threadVars, resamplerVars>>

NoLocals == [mtime |-> 0, parsed |-> None, result |-> "none", retSrc |-> 0]

NoResamplerCall == [op |-> "none"]

InitCache ==
    /\ file \in [exists : BOOLEAN, mtime : Mtimes, content : 1..Len(Sheets)]
    /\ cache = [df |-> None, mtime |-> IF impl = "app" THEN 0 ELSE NoMtime]
    /\ heap = [i \in ObjIds |-> FreeCell]
    /\ ret = None
    /\ last = NoCall
    /\ pc = [t \in Threads |-> "idle"]
    /\ loc = [t \in Threads |-> NoLocals]

Init ==
    /\ impl \in {"app", "data_loader"}
    /\ InitCache
    /\ df = <<>>
    /\ call = NoResamplerCall
    /\ out = NoResamplerCall

Next == get_df \/ loader_get_df \/ EditFile \/ DeleteFile \/ Mutate

Spec == Init /\ [][Next]_vars

(***************************************************************************)
(* Claims about the sequential cache                                       *)
(***************************************************************************)
\* C1: a get_df call whose stat succeeds invokes the parser if and only if
\* no dataset is cached yet or the file's modification time differs from the
\* cached one; a call that does not invoke the parser returns content equal
\* to what the previous load cached.
C1_ParserIffStale ==
    last.called /\ last.statOk =>
        /\ last.parsed <=> (last.preDf = None \/ last.statMtime # last.preMtime)
        /\ ~last.parsed => /\ last.outcome = "ok"
                           /\ last.retRows = last.preLoaded

\* A call served from the cache right after a call that reloaded.
C1_Witness ==
    /\ last.called /\ ~last.parsed /\ last.outcome = "ok"
    /\ last.afterReload
    /\ last.retRows # <<>>

\* C9: the cached dataset stays equal to what the last load produced whatever
\* callers do to the copies they were handed; the reference handed out is
\* never the cached object; every successful call returns that content.
C9_CacheImmutable ==
    /\ cache.df # None => heap[cache.df].rows = last.loaded
    /\ ret # None => ret # cache.df
    /\ last.called /\ last.outcome = "ok" => last.retRows = last.loaded

\* A caller mutated its copy, and the next call was served from the cache.
C9_Witness ==
    /\ last.called /\ last.sawDirty /\ ~last.parsed /\ last.outcome = "ok"
    /\ last.retRows # <<>>

\* C10: a failed get_df call leaves the cached dataset and the cached
\* modification time as they were; and the call after a failed reload, seeing
\* the same modification time, invokes the parser again.
C10_FailureLeavesCache ==
    /\ last.called /\ last.outcome # "ok" =>
          /\ cache.df = last.preDf
          /\ cache.mtime = last.preMtime
          /\ RowsOf(heap, cache.df) = last.preRows
    /\ last.called /\ last.afterFailedReload => last.parsed

\* A reload failed while a dataset was cached, and the next call, at the same
\* modification time, tried again and failed again.
C10_Witness ==
    /\ last.called /\ last.parsed /\ last.outcome = "ValueError"
    /\ last.afterFailedReload
    /\ last.preDf # None

(***************************************************************************)
(* DataCache.get_df of app.py called from several request threads on the   *)
(* one module-level cache.  Every statement of get_df is a step; the file  *)
(* is edited in between, each edit leaving a newer modification time, so a *)
(* modification time names one version of the file.                        *)
(***************************************************************************)
\* mtime = os.path.getmtime(self.path)
T_Stat(t) ==
    /\ pc[t] = "idle"
    /\ IF file.exists
       THEN /\ pc' = [pc EXCEPT ![t] = "check"]
            /\ loc' = [loc EXCEPT ![t] = [NoLocals EXCEPT !.mtime = file.mtime,
                                                          !.result = "running"]]
       ELSE /\ pc' = pc
            /\ loc' = [loc EXCEPT ![t] = [NoLocals EXCEPT !.result = "FileNotFoundError"]]
    /\ UNCHANGED <<cacheVars, resamplerVars>>

\* if self.df is None or mtime != self.mtime
T_Check(t) ==
    /\ pc[t] = "check"
    /\ pc' = [pc EXCEPT ![t] = IF NeedsReload(cache.df, cache.mtime, loc[t].mtime)
                               THEN "read" ELSE "copy"]
    /\ UNCHANGED <<loc, cacheVars, resamplerVars>>

\* The call self._read_excel(), before its result is assigned.
T_Read(t) ==
    /\ pc[t] = "read"
    /\ LET r == _read_excel(file)
           live == ({cache.df} \cup {loc[u].parsed : u \in Threads}) \ {None}
           dfId == FreshId(live)
       IN IF r.ok
          THEN /\ heap' = [heap EXCEPT ![dfId] = [rows |-> r.rows, src |-> file.mtime]]
               /\ loc' = [loc EXCEPT ![t].parsed = dfId]
               /\ pc' = [pc EXCEPT ![t] = "assign_df"]
          ELSE /\ heap' = heap
               /\ loc' = [loc EXCEPT ![t].result = r.err]
               /\ pc' = [pc EXCEPT ![t] = "idle"]
    /\ UNCHANGED <<impl, file, cache, ret, last, resamplerVars>>

\* self.df = <the parsed frame>
T_AssignDf(t) ==
    /\ pc[t] = "assign_df"
    /\ cache' = [cache EXCEPT !.df = loc[t].parsed]
    /\ loc' = [loc EXCEPT ![t].parsed = None]
    /\ heap' = Collect(heap, ({loc[t].parsed} \cup {loc[u].parsed : u \in Threads \ {t}})
                             \ {None})
    /\ pc' = [pc EXCEPT ![t] = "assign_mtime"]
    /\ UNCHANGED <<impl, file, ret, last, resamplerVars>>

\* self.mtime = mtime
T_AssignMtime(t) ==
    /\ pc[t] = "assign_mtime"
    /\ cache' = [cache EXCEPT !.mtime = loc[t].mtime]
    /\ pc' = [pc EXCEPT ![t] = "copy"]
    /\ UNCHANGED <<impl, file, heap, ret, last, loc, resamplerVars>>

\* return self.df.copy(): the frame self.df names now.
T_Copy(t) ==
    /\ pc[t] = "copy"
    /\ loc' = [loc EXCEPT ![t].result = "ok", ![t].retSrc = heap[cache.df].src]
    /\ pc' = [pc EXCEPT ![t] = "idle"]
    /\ UNCHANGED <<cacheVars, resamplerVars>>

\* An edit that leaves a newer modification time.
EditFileNewer ==
    /\ file.mtime < MaxMtime
    /\ \E c \in 1..Len(Sheets) :
           file' = [exists |-> TRUE, mtime |-> file.mtime + 1, content |-> c]
    /\ UNCHANGED <<impl, cache, heap, ret, last, threadVars, resamplerVars>>

InitConc ==
    /\ impl = "app"
    /\ InitCache
    /\ df = <<>>
    /\ call = NoResamplerCall
    /\ out = NoResamplerCall

NextConc ==
    \/ \E t \in Threads :
           \/ T_Stat(t)
           \/ T_Check(t)
           \/ T_Read(t)
           \/ T_AssignDf(t)
           \/ T_AssignMtime(t)
           \/ T_Copy(t)
    \/ EditFileNewer
    \/ DeleteFile

SpecConc == InitConc /\ [][NextConc]_vars

\* C2: no get_df call returns a dataset parsed from a version of the file
\* older than the version whose modification time the call's own stat saw.
C2_NoStaleReturn ==
    \A t \in Threads :
        pc[t] = "idle" /\ loc[t].result = "ok" => loc[t].retSrc >= loc[t].mtime

(***************************************************************************)
(* The series resampler of app.py                                          *)
(***************************************************************************)
\* A missing Unit cell.
NoUnit == "<NA>"

\* sub = df[df["Alias"] == alias]
RECURSIVE SelectAlias(_, _)
SelectAlias(d, alias) ==
    IF d = <<>> THEN <<>>
    ELSE IF d[1].Alias = alias THEN <<d[1]>> \o SelectAlias(Tail(d), alias)
    ELSE SelectAlias(Tail(d), alias)

\* The first Unit that is not missing, or "".
RECURSIVE FirstUnit(_)
FirstUnit(sub) ==
    IF sub = <<>> THEN ""
    ELSE IF sub[1].Unit # NoUnit THEN sub[1].Unit
    ELSE FirstUnit(Tail(sub))

_alias_unit_method(d, alias) ==
    LET sub == SelectAlias(d, alias)
    IN IF sub = <<>> THEN [name |-> alias, unit |-> "", method |-> "avg"]
       ELSE [name |-> sub[1].Alias, unit |-> FirstUnit(sub), method |-> sub[1].Method]

EffectiveFreq_AutoFirst(alias, freq_view, native) ==
    IF freq_view = "AUTO" THEN native
    ELSE IF alias \in DOMAIN NATIVE_FREQ_LOCK THEN NATIVE_FREQ_LOCK[alias]
    ELSE freq_view

\* locked = NATIVE_FREQ_LOCK.get(alias); both locked values are truthy.
EffectiveFreq(alias, freq_view, native) ==
    IF alias \in DOMAIN NATIVE_FREQ_LOCK THEN NATIVE_FREQ_LOCK[alias]
    ELSE IF freq_view = "AUTO" THEN native
    ELSE freq_view

\* sub.set_index("Date")["Value"]: the (Date, Value) points of the rows.
ToSeries(sub) == [i \in 1..Len(sub) |-> [Date |-> sub[i].Date, Value |-> sub[i].Value]]

RECURSIVE InsertPoint(_, _)
InsertPoint(sorted, p) ==
    IF sorted = <<>> THEN <<p>>
    ELSE IF DateLE(sorted[Len(sorted)].Date, p.Date) THEN Append(sorted, p)
    ELSE Append(InsertPoint(SubSeq(sorted, 1, Len(sorted) - 1), p), sorted[Len(sorted)])

\* sort_index()
RECURSIVE SortSeries(_)
SortSeries(s) ==
    IF s = <<>> THEN <<>>
    ELSE InsertPoint(SortSeries(SubSeq(s, 1, Len(s) - 1)), s[Len(s)])

\* The number of the period of a timestamp under a pandas rule.
PeriodIdx(rule, date) ==
    CASE rule = "M" -> date[1] * 12 + (date[2] - 1)
      [] rule = "Q" -> date[1] * 4 + ((date[2] - 1) \div 3)
      [] rule = "A-DEC" -> date[1]

\* The label of a period: its last day.
PeriodEnd(rule, idx) ==
    CASE rule = "M" -> <<idx \div 12, (idx % 12) + 1, DaysInMonth(idx \div 12, (idx % 12) + 1)>>
      [] rule = "Q" -> <<idx \div 4, 3 * (idx % 4) + 3, DaysInMonth(idx \div 4, 3 * (idx % 4) + 3)>>
      [] rule = "A-DEC" -> <<idx, 12, 31>>

\* The values of the points that fall into period idx, in series order.
RECURSIVE BinValues(_, _, _)
BinValues(s, rule, idx) ==
    IF s = <<>> THEN <<>>
    ELSE IF PeriodIdx(rule, s[1].Date) = idx
         THEN <<s[1].Value>> \o BinValues(Tail(s), rule, idx)
         ELSE BinValues(Tail(s), rule, idx)

RECURSIVE DropNaN(_)
DropNaN(vals) ==
    IF vals = <<>> THEN <<>>
    ELSE IF vals[1] = NaN THEN DropNaN(Tail(vals))
    ELSE <<vals[1]>> \o DropNaN(Tail(vals))

\* The exact sum of rationals.
RECURSIVE SumRat(_)
SumRat(vals) ==
    IF vals = <<>> THEN Rat(0)
    ELSE LET t == SumRat(Tail(vals))
         IN Reduce(vals[1].n * t.d + t.n * vals[1].d, vals[1].d * t.d)

Mean_CountAll(vals) ==
    IF DropNaN(vals) = <<>> THEN NaN
    ELSE LET t == SumRat(DropNaN(vals)) IN Reduce(t.n, t.d * Len(vals))

\* Resampler.mean(): the mean of the values that are not nan; nan when none is.
Mean(vals) ==
    LET nn == DropNaN(vals)
    IN IF nn = <<>> THEN NaN
       ELSE LET t == SumRat(nn) IN Reduce(t.n, t.d * Len(nn))

Last_Raw(vals) == IF vals = <<>> THEN NaN ELSE vals[Len(vals)]

\* Resampler.last(): the last value that is not nan; nan when none is.
Last(vals) ==
    LET nn == DropNaN(vals)
    IN IF nn = <<>> THEN NaN ELSE nn[Len(nn)]

\* s.resample(rule).last() / .mean() of a non-empty sorted series: one point
\* per period from the first point's period to the last point's.
_resample_series(s, freq, method) ==
    LET rule == DictGet(FREQ_RULE, freq, "M")
        first == PeriodIdx(rule, s[1].Date)
        last_ == PeriodIdx(rule, s[Len(s)].Date)
    IN [k \in 1..(last_ - first + 1) |->
          [Date |-> PeriodEnd(rule, first + k - 1),
           Value |-> IF method = "eop"
                     THEN Last(BinValues(s, rule, first + k - 1))
                     ELSE Mean(BinValues(s, rule, first + k - 1))]]

\* pd.to_datetime of the bound strings the model uses: a timestamp, NaT for
\* the strings pandas reads as missing ("nan", "NaT"), or an exception.
to_datetime(str) ==
    CASE str = "2024-02-15" -> [ok |-> TRUE, ts |-> <<2024, 2, 15>>]
      [] str = "2024-12-31" -> [ok |-> TRUE, ts |-> <<2024, 12, 31>>]
      [] str = "nan" -> [ok |-> TRUE, ts |-> NaT]
      [] OTHER -> [ok |-> FALSE]

\* df["Date"] >= ts; a comparison with NaT is False.
DateGE(date, ts) == ts # NaT /\ DateLE(ts, date)

DateLEq(date, ts) == ts # NaT /\ DateLE(date, ts)

RECURSIVE KeepFrom(_, _)
KeepFrom(s, ts) ==
    IF s = <<>> THEN <<>>
    ELSE IF DateGE(s[1].Date, ts) THEN <<s[1]>> \o KeepFrom(Tail(s), ts)
    ELSE KeepFrom(Tail(s), ts)

RECURSIVE KeepTo(_, _)
KeepTo(s, ts) ==
    IF s = <<>> THEN <<>>
    ELSE IF DateLEq(s[1].Date, ts) THEN <<s[1]>> \o KeepTo(Tail(s), ts)
    ELSE KeepTo(Tail(s), ts)

_apply_period_filter(s, dfrom, dto) ==
    LET s1 == IF dfrom # "" /\ to_datetime(dfrom).ok
              THEN KeepFrom(s, to_datetime(dfrom).ts) ELSE s
    IN IF dto # "" /\ to_datetime(dto).ok
       THEN KeepTo(s1, to_datetime(dto).ts) ELSE s1

\* dt.strftime("%d.%m.%Y"): day, month, year.
_format_date(dt) == <<dt[3], dt[2], dt[1]>>

\* strftime("%Y-%m-%d"): year, month, day.
IsoDate(dt) == <<dt[1], dt[2], dt[3]>>

\* a / b rounded to the nearest integer, ties to even (b > 0).
RoundHalfEven(a, b) ==
    LET q == a \div b
        r == a % b
    IN IF 2 * r < b THEN q
       ELSE IF 2 * r > b THEN q + 1
       ELSE IF q % 2 = 0 THEN q ELSE q + 1

\* The text "": no digits.
EmptyText == [scaled |-> 0, decimals |-> 0]

\* A decimal text: scaled / 10^decimals, printed with that many decimals.
_round_val(x) ==
    IF x = NaN THEN EmptyText
    ELSE IF Abs(x.n) >= x.d THEN [scaled |-> RoundHalfEven(x.n * 10, x.d), decimals |-> 1]
    ELSE [scaled |-> RoundHalfEven(x.n * 100, x.d), decimals |-> 2]

NeedsResample_Always(freq_use, native) == TRUE

\* if freq_use != native
NeedsResample(freq_use, native) == freq_use # native

EmptyTable_LockedNative(alias) ==
    [op |-> "table", columns |-> <<"Data", alias>>, rows |-> <<>>, total |-> 0,
     native |-> DictGet(NATIVE_FREQ_LOCK, alias, "M")]

\* return ["Data", alias], [], 0, "M"
EmptyTable(alias) ==
    [op |-> "table", columns |-> <<"Data", alias>>, rows |-> <<>>, total |-> 0,
     native |-> "M"]

\* return [], [], {"native": "M"}
EmptySeries == [op |-> "series", x |-> <<>>, y |-> <<>>, meta |-> [native |-> "M"]]

\* The series both builders compute: select, lock, resample, filter.
CoreSeries(sub, freq_use, native, method, dfrom, dto) ==
    LET s == SortSeries(ToSeries(sub))
        r == IF NeedsResample(freq_use, native)
             THEN _resample_series(s, freq_use, method) ELSE s
    IN _apply_period_filter(r, dfrom, dto)

\* freq_use is the local variable of the call; it is not part of the tuple
\* _build_table returns and is recorded for the claims about it.
_build_table(d, alias, freq_view, dfrom, dto) ==
    LET sub == SelectAlias(d, alias)
    IN IF sub = <<>> THEN EmptyTable(alias)
       ELSE LET native == sub[1].Freq
                freq_use == EffectiveFreq(alias, freq_view, native)
                aum == _alias_unit_method(d, alias)
                s == CoreSeries(sub, freq_use, native, aum.method, dfrom, dto)
                method_text == IF aum.method = "avg" THEN "v srednem za period"
                               ELSE "na konets perioda"
                col2 == IF aum.unit # "" THEN <<aum.name, method_text, aum.unit>>
                        ELSE <<aum.name, method_text>>
                rows == [i \in 1..Len(s) |->
                            <<_format_date(s[i].Date), _round_val(s[i].Value)>>]
            IN [op |-> "table", columns |-> <<"Data", col2>>, rows |-> rows,
                total |-> Len(rows), native |-> native, freq_use |-> freq_use]

_build_series(d, alias, freq_view, dfrom, dto) ==
    LET sub == SelectAlias(d, alias)
    IN IF sub = <<>> THEN EmptySeries
       ELSE LET native == sub[1].Freq
                freq_use == EffectiveFreq(alias, freq_view, native)
                aum == _alias_unit_method(d, alias)
                s == CoreSeries(sub, freq_use, native, aum.method, dfrom, dto)
            IN [op |-> "series",
                x |-> [i \in 1..Len(s) |-> IsoDate(s[i].Date)],
                y |-> [i \in 1..Len(s) |->
                          IF s[i].Value = NaN THEN PyNone ELSE s[i].Value],
                meta |-> [native |-> native, freq_used |-> freq_use, name |-> aum.name,
                          unit |-> aum.unit, method |-> aum.method]]

(***************************************************************************)
(* The datasets and the requests the resampler is applied to               *)
(***************************************************************************)
NDates == 3

\* The observation dates, and the value observed on each.
DateList == << <<2024, 1, 15>>, <<2024, 2, 15>>, <<2025, 1, 10>>, <<2024, 2, 29>>,
               <<2024, 6, 30>> >>

ValueList == <<Rat(90), Rat(92), [n |-> 1, d |-> 2], Rat(95), Rat(97)>>

DataAliases == {"USD/RUB", InflationAlias, GdpAlias}
QueryAliases == DataAliases \cup {"Unknown"}
Freqs == {"M", "Q", "A"}
Methods == {"avg", "eop"}
FreqViews == {"AUTO", "M", "Q", "A", "W"}
FromStrings == {"", "not-a-date", "nan", "2024-02-15"}
ToStrings == {"", "not-a-date", "2024-12-31"}

\* A row of another indicator, always present.
OtherRow ==
    [Date |-> <<2024, 3, 31>>, Name |-> "Bank rate", Value |-> Rat(16), Unit |-> "%",
     Freq |-> "Q", Method |-> "eop", Alias |-> "Key rate"]

\* The rows of indicator a: one per date the sheet has a row for.  The sheet
\* need not be consistent: the 2025 row carries its own Freq and Method.
RECURSIVE IndicatorRows(_, _, _, _, _)
IndicatorRows(a, f, m, cells, i) ==
    IF i = 0 THEN <<>>
    ELSE IF cells[i] = "absent" THEN IndicatorRows(a, f, m, cells, i - 1)
    ELSE Append(IndicatorRows(a, f, m, cells, i - 1),
                [Date |-> DateList[i], Name |-> a,
                 Value |-> IF cells[i] = "nan" THEN NaN ELSE ValueList[i],
                 Unit |-> IF i = 1 THEN NoUnit ELSE "RUB",
                 Freq |-> IF i = 3 THEN "A" ELSE f,
                 Method |-> IF i = 3 THEN "eop" ELSE m,
                 Alias |-> a])

Datasets ==
    {SortRows(<<OtherRow>> \o IndicatorRows(a, f, m, cells, NDates)) :
        a \in DataAliases, f \in Freqs, m \in Methods,
        cells \in [1..NDates -> {"absent", "nan", "val"}]}

InitResample ==
    /\ impl = "app"
    /\ file = [exists |-> FALSE, mtime |-> 0, content |-> 1]
    /\ cache = [df |-> None, mtime |-> 0]
    /\ heap = [i \in ObjIds |-> FreeCell]
    /\ ret = None
    /\ last = NoCall
    /\ pc = [t \in Threads |-> "idle"]
    /\ loc = [t \in Threads |-> NoLocals]
    /\ df \in Datasets
    /\ call = NoResamplerCall
    /\ out = NoResamplerCall

build_table ==
    /\ call.op = "none"
    /\ \E alias \in QueryAliases, freq_view \in FreqViews,
          dfrom \in FromStrings, dto \in ToStrings :
          /\ call' = [op |-> "table", alias |-> alias, freq_view |-> freq_view,
                      dfrom |-> dfrom, dto |-> dto]
          /\ out' = _build_table(df, alias, freq_view, dfrom, dto)
    /\ UNCHANGED <<df, cacheVars, threadVars>>

build_series ==
    /\ call.op = "none"
    /\ \E alias \in QueryAliases, freq_view \in FreqViews,
          dfrom \in FromStrings, dto \in ToStrings :
          /\ call' = [op |-> "series", alias |-> alias, freq_view |-> freq_view,
                      dfrom |-> dfrom, dto |-> dto]
          /\ out' = _build_series(df, alias, freq_view, dfrom, dto)
    /\ UNCHANGED <<df, cacheVars, threadVars>>

\* The response is sent; the next request is served from the same dataset.
Respond ==
    /\ call.op # "none"
    /\ call' = NoResamplerCall
    /\ out' = NoResamplerCall
    /\ UNCHANGED <<df, cacheVars, threadVars>>

NextResample == build_table \/ build_series \/ Respond

SpecResample == InitResample /\ [][NextResample]_vars

(***************************************************************************)
(* Claims about the resampler.  They are stated on the dataset, the        *)
(* request and the response alone.                                         *)
(***************************************************************************)
\* The rows of the requested alias, as a set and in dataset order.
QRows == {df[i] : i \in {j \in 1..Len(df) : df[j].Alias = call.alias}}
QFirst == df[Min({j \in 1..Len(df) : df[j].Alias = call.alias})]
QSeq == SelectAlias(df, call.alias)

\* A request was answered for an alias that has rows.
Answered == call.op # "none" /\ QRows # {}

\* The effective frequency and the points of the response.
OutFreqUse == IF call.op = "table" THEN out.freq_use ELSE out.meta.freq_used
OutLen == IF call.op = "table" THEN Len(out.rows) ELSE Len(out.x)
OutCell(i) == IF call.op = "table" THEN out.rows[i] ELSE <<out.x[i], out.y[i]>>
OutDate(i) ==
    IF call.op = "table" THEN <<out.rows[i][1][3], out.rows[i][1][2], out.rows[i][1][1]>>
    ELSE out.x[i]

\* How a point (date, value) shows in a response of the requested shape.
Shown(date, value) ==
    IF call.op = "table" THEN <<_format_date(date), _round_val(value)>>
    ELSE <<IsoDate(date), IF value = NaN THEN PyNone ELSE value>>

\* The calendar period (month, quarter, year) ending on day e holds date d.
InPeriodEnding(rule, d, e) ==
    /\ d[1] = e[1]
    /\ rule = "M" => d[2] = e[2]
    /\ rule = "Q" => (d[2] - 1) \div 3 = (e[2] - 1) \div 3

IsPeriodEndDay(rule, e) ==
    /\ e[3] = DaysInMonth(e[1], e[2])
    /\ rule = "Q" => e[2] \in {3, 6, 9, 12}
    /\ rule = "A-DEC" => e[2] = 12

OutRule == IF OutFreqUse \in {"Q", "A"} THEN (IF OutFreqUse = "Q" THEN "Q" ELSE "A-DEC") ELSE "M"

\* The rows of the alias with a value, observed in the period ending on e.
Observed(e) == {r \in QRows : r.Value # NaN /\ InPeriodEnding(OutRule, r.Date, e)}

RECURSIVE SumOfRows(_)
SumOfRows(S) ==
    IF S = {} THEN Rat(0)
    ELSE LET r == CHOOSE x \in S : TRUE
             t == SumOfRows(S \ {r})
         IN Reduce(r.Value.n * t.d + t.n * r.Value.d, r.Value.d * t.d)

ArithmeticMean(S) == LET t == SumOfRows(S) IN Reduce(t.n, t.d * Cardinality(S))

LatestValue(S) == (CHOOSE r \in S : \A q \in S : DateLE(q.Date, r.Date)).Value

\* With no date bounds the response has one point per period, from the period
\* of the earliest row of the alias to the period of its latest row.
CoversAllPeriods ==
    /\ OutLen >= 1
    /\ \E r \in QRows : /\ \A q \in QRows : DateLE(r.Date, q.Date)
                        /\ InPeriodEnding(OutRule, r.Date, OutDate(1))
    /\ \E r \in QRows : /\ \A q \in QRows : DateLE(q.Date, r.Date)
                        /\ InPeriodEnding(OutRule, r.Date, OutDate(OutLen))
    /\ \A i \in 1..(OutLen - 1) :
           /\ DateLT(OutDate(i), OutDate(i + 1))
           /\ ~\E k \in 1..12 :
                 LET e == <<OutDate(i)[1] + (IF OutDate(i)[2] + k > 12 THEN 1 ELSE 0),
                            ((OutDate(i)[2] + k - 1) % 12) + 1,
                            DaysInMonth(OutDate(i)[1] + (IF OutDate(i)[2] + k > 12 THEN 1 ELSE 0),
                                        ((OutDate(i)[2] + k - 1) % 12) + 1)>>
                 IN IsPeriodEndDay(OutRule, e) /\ DateLT(e, OutDate(i + 1))

\* C3: when the effective frequency differs from the native one and the
\* alias's Method is avg, every point of the response is dated at the end of
\* a calendar period and valued at the arithmetic mean of the non-missing
\* observations of that period, the missing marker when there is none; with
\* no bounds every period from the first to the last observation shows.
C3_AverageResample ==
    (Answered /\ OutFreqUse # QFirst.Freq /\ QFirst.Method = "avg") =>
        /\ \A i \in 1..OutLen :
              /\ IsPeriodEndDay(OutRule, OutDate(i))
              /\ OutCell(i) = Shown(OutDate(i),
                                    IF Observed(OutDate(i)) = {} THEN NaN
                                    ELSE ArithmeticMean(Observed(OutDate(i))))
        /\ (call.dfrom = "" /\ call.dto = "") => CoversAllPeriods

\* The scenario of the specification: monthly 90.0 on 2024-01-15 and 92.0 on
\* 2024-02-15, viewed quarterly, give the one row 31.03.2024 / "91.0".
C3_Witness ==
    /\ call.op = "table" /\ call.alias = "USD/RUB" /\ call.freq_view = "Q"
    /\ Len(QSeq) = 2
    /\ QSeq[1].Date = <<2024, 1, 15>> /\ QSeq[1].Value = Rat(90)
    /\ QSeq[2].Date = <<2024, 2, 15>> /\ QSeq[2].Value = Rat(92)
    /\ QSeq[1].Freq = "M" /\ QSeq[1].Method = "avg"
    /\ out.rows = << << <<31, 3, 2024>>, [scaled |-> 910, decimals |-> 1] >> >>
    /\ out.total = 1

\* C4: when the effective frequency differs from the native one and the
\* alias's Method is eop, every point is dated at a period end and valued at
\* the chronologically last non-missing observation of that period, the
\* missing marker when there is none.
C4_EndOfPeriodResample ==
    (Answered /\ OutFreqUse # QFirst.Freq /\ QFirst.Method = "eop") =>
        /\ \A i \in 1..OutLen :
              /\ IsPeriodEndDay(OutRule, OutDate(i))
              /\ OutCell(i) = Shown(OutDate(i),
                                    IF Observed(OutDate(i)) = {} THEN NaN
                                    ELSE LatestValue(Observed(OutDate(i))))
        /\ (call.dfrom = "" /\ call.dto = "") => CoversAllPeriods

\* A quarter whose later row (15 February) has no value shows the value of
\* its earlier row (15 January), and the empty quarters after it show null.
C4_Witness ==
    /\ call.op = "series" /\ call.freq_view = "Q" /\ call.dfrom = "" /\ call.dto = ""
    /\ call.alias = "USD/RUB"
    /\ Len(QSeq) = 3
    /\ QSeq[1].Method = "eop" /\ QSeq[1].Freq = "M"
    /\ QSeq[1].Value = Rat(90) /\ QSeq[2].Value = NaN
    /\ out.x[1] = <<2024, 3, 31>> /\ out.y[1] = Rat(90)
    /\ out.y[2] = PyNone
    /\ Len(out.x) = 5

\* C5: the effective frequency is the locked one for an alias of the lock
\* table whatever view frequency is requested; for any other alias it is the
\* native frequency on "AUTO" and the requested value verbatim otherwise.
C5_FrequencyLock ==
    Answered =>
        OutFreqUse = IF call.alias = InflationAlias THEN "M"
                     ELSE IF call.alias = GdpAlias THEN "A"
                     ELSE IF call.freq_view = "AUTO" THEN QFirst.Freq
                     ELSE call.freq_view

\* A locked alias requested with "AUTO" while its rows are monthly.
C5_Witness ==
    /\ Answered /\ call.op = "table"
    /\ call.alias = GdpAlias /\ call.freq_view = "AUTO"
    /\ QFirst.Freq = "M"
    /\ out.freq_use = "A"
    /\ out.total >= 1

\* C7: when the effective frequency equals the native one and no date bound
\* is given, the response has one point per row of the alias, in ascending
\* date order, each with the row's own date and value, a missing value shown
\* as the missing marker.
C7_NoAggregationAtNativeFrequency ==
    (Answered /\ OutFreqUse = QFirst.Freq /\ call.dfrom = "" /\ call.dto = "") =>
        /\ OutLen = Cardinality(QRows)
        /\ \A i \in 1..OutLen : OutCell(i) = Shown(QSeq[i].Date, QSeq[i].Value)
        /\ \A i \in 1..(OutLen - 1) : DateLT(OutDate(i), OutDate(i + 1))

\* Three rows at the native frequency, one of them without a value.
C7_Witness ==
    /\ Answered /\ call.op = "series" /\ call.dfrom = "" /\ call.dto = ""
    /\ OutFreqUse = QFirst.Freq
    /\ Len(out.x) = 3
    /\ out.y[2] = PyNone /\ out.y[1] # PyNone

\* C8: for an alias no row of the dataset carries, _build_table returns no
\* rows, total 0 and native "M", and _build_series returns empty x and y and
\* the metadata native "M", whatever the view frequency and the bounds.
C8_UnknownAliasIsEmpty ==
    (call.op # "none" /\ QRows = {}) =>
        /\ call.op = "table" => /\ out.rows = <<>>
                                /\ out.total = 0
                                /\ out.native = "M"
        /\ call.op = "series" => /\ out.x = <<>>
                                 /\ out.y = <<>>
                                 /\ out.meta.native = "M"

\* A locked alias without rows, requested with a frequency and bounds.
C8_Witness ==
    /\ call.op = "table" /\ QRows = {}
    /\ call.alias = GdpAlias /\ call.freq_view = "Q"
    /\ call.dfrom = "not-a-date" /\ call.dto = "2024-12-31"
    /\ out.total = 0

\* The response to the same request without date bounds: the (possibly
\* resampled) series before the filter.
UnfilteredCells ==
    IF call.op = "table"
    THEN _build_table(df, call.alias, call.freq_view, "", "").rows
    ELSE LET o == _build_series(df, call.alias, call.freq_view, "", "")
         IN [i \in 1..Len(o.x) |-> <<o.x[i], o.y[i]>>]

OutCells == [i \in 1..OutLen |-> OutCell(i)]

CellDate(c) == IF call.op = "table" THEN <<c[1][3], c[1][2], c[1][1]>> ELSE c[1]

\* The bound strings that are dates, and the date each one writes.
IsDateString(str) == str \in {"2024-02-15", "2024-12-31"}

DateWritten(str) == IF str = "2024-02-15" THEN <<2024, 2, 15>> ELSE <<2024, 12, 31>>

WithinBounds(d) ==
    /\ IsDateString(call.dfrom) => DateLE(DateWritten(call.dfrom), d)
    /\ IsDateString(call.dto) => DateLE(d, DateWritten(call.dto))

RECURSIVE KeepWithin(_)
KeepWithin(cells) ==
    IF cells = <<>> THEN <<>>
    ELSE IF WithinBounds(CellDate(cells[1])) THEN <<cells[1]>> \o KeepWithin(Tail(cells))
    ELSE KeepWithin(Tail(cells))

\* C6: the response holds exactly the points of the (possibly resampled)
\* series whose date lies within the bounds that are dates, both inclusive;
\* a bound that is absent or is not a date restricts nothing.
C6_DateFilter == Answered => OutCells = KeepWithin(UnfilteredCells)

\* C6, for every bound string but the ones pandas reads as a missing
\* timestamp: the same statement, which the code meets.
C6_DateFilterUnlessNaT ==
    (Answered /\ call.dfrom # "nan") => OutCells = KeepWithin(UnfilteredCells)

\* Both bounds are dates, the series is resampled, and the filter removes
\* points on both sides while keeping the point dated on the upper bound.
C6_WitnessBothBounds ==
    /\ Answered /\ call.op = "series"
    /\ call.dfrom = "2024-02-15" /\ call.dto = "2024-12-31"
    /\ OutFreqUse # QFirst.Freq
    /\ OutLen >= 1 /\ OutLen + 2 <= Len(UnfilteredCells)
    /\ out.x[OutLen] = <<2024, 12, 31>>

====
